---- MODULE Spec2Model ----
(***************************************************************************)
(* Dairy shop automation: the two Streamlit scripts of the repository.     *)
(*                                                                         *)
(*   src/src/main.py  "Dairy Waste Orchestrator": reads a CSV with a       *)
(*                    days_remaining column, flags rows with               *)
(*                    days_remaining <= 3, computes a risk score and posts *)
(*                    an alert to an n8n webhook.             (Spec)       *)
(*   src/main.py      "Dairy Shop Waste Prevention": reads a CSV with an   *)
(*                    expiry_date column and flags rows expiring within    *)
(*                    3 days.                                 (SpecExpiry) *)
(*                                                                         *)
(* A Streamlit script runs top to bottom once per UI event; widget values  *)
(* and st.session_state survive from one run to the next, everything else  *)
(* is recomputed.                                                          *)
(*                                                                         *)
(* Representation.  A CSV cell is a record [kind, tenths]: a number is     *)
(* kept in tenths (3.7 is 37) so that the float -> int truncation of       *)
(* astype(int) is a real conversion; "empty" is the NaN read_csv gives an  *)
(* empty cell; "text" is a string that does not parse as a number.  An     *)
(* optional value (None in Python) is a sequence of length 0 or 1.         *)
(* risk_ratio is a Python float; the model computes the score in exact     *)
(* integer arithmetic, which agrees with the double-precision result for   *)
(* every batch of at most 19 rows (11 risky of 20 is the first batch whose *)
(* double result, 44, is below the exact floor, 45).                       *)
(***************************************************************************)
EXTENDS Integers, Sequences, FiniteSets

VARIABLES
    N8N_WEBHOOK_URL,   \* <<>> when the secret is absent, else <<url>>
    uploaded_file,     \* the file_uploader widget: <<>> or <<file>>
    last_auto_alert,   \* st.session_state.last_auto_alert: <<>> or <<record>>
    pc,                \* position of the orchestrator script run
    resend_pressed,    \* value of the "Resend Alert" button in this run
    df,                \* <<>> (None) or <<DataFrame>>
    risky_df,          \* DataFrame
    risk_score,        \* int
    load_error,        \* the except branch of the CSV block was taken
    alert_msg,         \* what the "Automatic Alerting" section rendered
    posts,             \* requests.post attempts made by this run
    metric,            \* the "Calculated Risk Score" metric: <<>> or <<int>>
    e_file,            \* expiry app: the file_uploader widget
    e_now,             \* expiry app: the wall clock, in half days
    e_pc,              \* expiry app: position of the script run
    e_run_now,         \* expiry app: what datetime.now() returned in the last run
    e_df,              \* expiry app: <<>> or <<DataFrame with expiry_days>>
    e_risky,           \* expiry app: <<>> or <<DataFrame shown and downloadable>>
    e_crashed          \* expiry app: the run ended in an uncaught exception

ovars == <<N8N_WEBHOOK_URL, uploaded_file, last_auto_alert, pc, resend_pressed,
           df, risky_df, risk_score, load_error, alert_msg, posts, metric>>
evars == <<e_file, e_now, e_pc, e_run_now, e_df, e_risky, e_crashed>>
vars == <<ovars, evars>>

----------------------------------------------------------------------------
(* Bounds of the model *)

MaxRows == 3        \* rows of an uploaded inventory file
MaxRowsBoth == 2    \* rows of a file that has both days_remaining and days_left
MaxExpiryRows == 2  \* rows of a file uploaded to the expiry app
MaxClock == 3       \* the expiry app's clock stops here
TicksPerDay == 2    \* clock ticks in a day

----------------------------------------------------------------------------
(* Cells and frames *)

Num(t) == [kind |-> "num", tenths |-> t]
IntCell(n) == Num(10 * n)
NaN == [kind |-> "empty", tenths |-> 0]
Text == [kind |-> "text", tenths |-> 0]

IsInt(c) == c.kind = "num" /\ c.tenths % 10 = 0
IntOf(c) == c.tenths \div 10

\* days_remaining cells of the uploaded files: expired, the boundary 3, 4,
\* a fractional value, an empty cell and a non-numeric one
DayCells == {IntCell(-1), IntCell(3), IntCell(4), Num(37), NaN, Text}
\* days_left cells of a file that has days_remaining too
LeftCells == {IntCell(1), IntCell(9)}

Products == <<"milk", "curd", "ghee", "paneer", "butter">>

EmptyFrame == [columns |-> {}, rows |-> <<>>]

----------------------------------------------------------------------------
(* Uploaded files.  A file is its header line (the raw column names) and   *)
(* its rows, each a function from the raw column names to cells.  A file   *)
(* with an empty header is a file read_csv cannot parse (no columns).      *)
(* Column names are unique after normalisation in every file drawn here.   *)

PlainHeader(layout) ==
    {"product"} \cup (IF layout \in {"dr", "both"} THEN {"days_remaining"} ELSE {})
                \cup (IF layout \in {"dl", "both"} THEN {"days_left"} ELSE {})

FancyHeader(layout) ==
    {" Product "} \cup (IF layout \in {"dr", "both"} THEN {" Days_Remaining "} ELSE {})
                  \cup (IF layout \in {"dl", "both"} THEN {"DAYS_LEFT "} ELSE {})

Layouts == {"dr", "dl", "both", "none"}

IsProductName(c) == c \in {"product", " Product "}
IsLeftName(c) == c \in {"days_left", "DAYS_LEFT "}

\* the rows a file with header h may have at position i
RowChoices(h, both, i) ==
    { [c \in h |-> IF IsProductName(c) THEN Products[i]
                   ELSE IF both /\ IsLeftName(c) THEN l ELSE d] :
        d \in DayCells, l \in LeftCells }

RECURSIVE RowSeqs(_, _, _)
RowSeqs(h, both, n) ==
    IF n = 0 THEN {<<>>}
    ELSE { Append(s, r) : s \in RowSeqs(h, both, n - 1), r \in RowChoices(h, both, n) }

Min(a, b) == IF a <= b THEN a ELSE b
Max(a, b) == IF a >= b THEN a ELSE b

RowLimit(layout) == IF layout = "both" THEN Min(MaxRows, MaxRowsBoth) ELSE MaxRows

FilesOf(h, layout) ==
    UNION { { [header |-> h, rows |-> s] : s \in RowSeqs(h, layout = "both", n) } :
            n \in 0..RowLimit(layout) }

UnreadableFile == [header |-> {}, rows |-> <<>>]

Files ==
    {UnreadableFile}
    \cup UNION { FilesOf(PlainHeader(l), l) : l \in Layouts }
    \cup UNION { FilesOf(FancyHeader(l), l) : l \in {"dr", "dl", "both"} }

----------------------------------------------------------------------------
(* src/src/main.py: helpers *)

\* pd.read_csv: the frame of a parsable file, rows indexed 0, 1, ...
read_csv(file) ==
    [columns |-> file.header,
     rows |-> [i \in 1..Len(file.rows) |-> [index |-> i - 1, cells |-> file.rows[i]]]]

\* c.strip().lower() on the column names that occur in the files
StripLower(c) ==
    CASE c \in {"product", " Product "} -> "product"
      [] c \in {"days_remaining", " Days_Remaining "} -> "days_remaining"
      [] c \in {"days_left", "DAYS_LEFT "} -> "days_left"

\* df.rename / df.columns = [...]: the frame with each column c renamed to f[c]
Relabel(frame, f) ==
    LET cols == { f[c] : c \in frame.columns }
        old(n) == CHOOSE c \in frame.columns : f[c] = n
    IN [columns |-> cols,
        rows |-> [i \in 1..Len(frame.rows) |->
                    [index |-> frame.rows[i].index,
                     cells |-> [n \in cols |-> frame.rows[i].cells[old(n)]]]]]

normalize_df_columns(frame) == Relabel(frame, [c \in frame.columns |-> StripLower(c)])

LeftToRemaining(c) == IF c = "days_left" THEN "days_remaining" ELSE c

\* mutant: the days_left synonym is forgotten
RenameDaysLeft_Skipped(frame) == frame

\* lines 135-136: days_left is accepted when days_remaining is absent
RenameDaysLeft(frame) ==
    IF "days_left" \in frame.columns /\ "days_remaining" \notin frame.columns
    THEN Relabel(frame, [c \in frame.columns |-> LeftToRemaining(c)])
    ELSE frame

Sentinel == 9999
Threshold == 3

\* pd.to_numeric(errors="coerce"): what does not parse becomes NaN
ToNumeric(c) == IF c.kind = "num" THEN c ELSE NaN

\* mutant: missing values are filled with 0 instead of the sentinel
FillNa_Zero(c, v) == IF c.kind = "empty" THEN IntCell(0) ELSE c

FillNa(c, v) == IF c.kind = "empty" THEN v ELSE c

\* mutant: the float is rounded to the nearest integer instead of truncated
AsTypeInt_Rounded(c) == IntCell((c.tenths + 5) \div 10)

\* astype(int) on a float: truncation toward zero
AsTypeInt(c) ==
    IntCell(IF c.tenths >= 0 THEN c.tenths \div 10 ELSE -((-c.tenths) \div 10))

CoerceCell(c) == AsTypeInt(FillNa(ToNumeric(c), IntCell(Sentinel)))

\* line 72: the assignment df["days_remaining"] = ..., made on the caller's frame
CoerceDaysRemaining(frame) ==
    [frame EXCEPT !.rows =
        [i \in 1..Len(frame.rows) |->
            [frame.rows[i] EXCEPT !.cells["days_remaining"] = CoerceCell(@)]]]

\* mutant: the threshold is exclusive
IsRisky_Strict(row) == IntOf(row.cells["days_remaining"]) < Threshold

IsRisky(row) == IntOf(row.cells["days_remaining"]) <= Threshold

\* the caller's frame after find_risky_rows(df) returned
FrameAfterFind(frame) ==
    IF "days_remaining" \notin frame.columns THEN frame ELSE CoerceDaysRemaining(frame)

\* the value find_risky_rows(df) returns
find_risky_rows(frame) ==
    IF "days_remaining" \notin frame.columns THEN EmptyFrame
    ELSE LET m == CoerceDaysRemaining(frame)
         IN [columns |-> m.columns, rows |-> SelectSeq(m.rows, IsRisky)]

\* mutant: the score is rounded to the nearest integer
RiskScore_Rounded(risky_items, total_items) ==
    IF total_items > 0
    THEN Max(0, (2 * (100 * total_items - 100 * risky_items) + total_items)
                    \div (2 * total_items))
    ELSE 100

\* mutant: an empty batch scores 0
RiskScore_EmptyIsZero(risky_items, total_items) ==
    IF total_items > 0
    THEN Max(0, (100 * total_items - 100 * risky_items) \div total_items)
    ELSE 0

\* lines 142-148, for total_items <= 19 (see the note at the top)
RiskScore(risky_items, total_items) ==
    IF total_items > 0
    THEN Max(0, (100 * total_items - 100 * risky_items) \div total_items)
    ELSE 100

\* what the webhook may do with one POST: answer with a status or fail
\* (connection error, timeout)
StatusCodes == {200, 300}
Outcomes ==
    { [raised |-> FALSE, status |-> c] : c \in StatusCodes }
    \cup { [raised |-> TRUE, status |-> 0] }

\* mutant: every status from 200 up counts as success
send_to_n8n_NoUpperBound(url, outcome) ==
    IF url = <<>>
    THEN [ok |-> FALSE, resp |-> [kind |-> "not configured", status |-> 0], attempts |-> 0]
    ELSE IF outcome.raised
    THEN [ok |-> FALSE, resp |-> [kind |-> "Request error", status |-> 0], attempts |-> 1]
    ELSE [ok |-> outcome.status >= 200,
          resp |-> [kind |-> "status", status |-> outcome.status],
          attempts |-> 1]

\* lines 76-84: (success, response_text), and the POST attempts it made
send_to_n8n(url, outcome) ==
    IF url = <<>>
    THEN [ok |-> FALSE, resp |-> [kind |-> "not configured", status |-> 0], attempts |-> 0]
    ELSE IF outcome.raised
    THEN [ok |-> FALSE, resp |-> [kind |-> "Request error", status |-> 0], attempts |-> 1]
    ELSE [ok |-> outcome.status >= 200 /\ outcome.status < 300,
          resp |-> [kind |-> "status", status |-> outcome.status],
          attempts |-> 1]

\* lines 165 and 194: the guard of the automatic alert and of the resend button
HasRisky == uploaded_file # <<>> /\ Len(risky_df.rows) > 0

----------------------------------------------------------------------------
(* src/src/main.py: the script, one run per UI event *)

\* a UI event reruns the script from the top; nothing but the widgets and
\* st.session_state survives (lines 126-128 set the defaults again)
StartRun(pressed) ==
    /\ pc' = "load"
    /\ resend_pressed' = pressed
    /\ df' = <<>>
    /\ risky_df' = EmptyFrame
    /\ risk_score' = 100
    /\ load_error' = FALSE
    /\ alert_msg' = "none"
    /\ posts' = 0
    /\ metric' = <<>>
    /\ UNCHANGED <<N8N_WEBHOOK_URL, last_auto_alert, evars>>

Upload ==
    /\ pc = "idle"
    /\ uploaded_file = <<>>
    /\ \E f \in Files : uploaded_file' = <<f>>
    /\ StartRun(FALSE)

RemoveFile ==
    /\ pc = "idle"
    /\ uploaded_file # <<>>
    /\ uploaded_file' = <<>>
    /\ StartRun(FALSE)

\* the resend button exists only where the last run rendered it (line 194)
PressResend ==
    /\ pc = "idle"
    /\ HasRisky
    /\ UNCHANGED uploaded_file
    /\ StartRun(TRUE)

\* any other widget (the question box, the Gemini button) reruns the script too
OtherWidget ==
    /\ pc = "idle"
    /\ UNCHANGED uploaded_file
    /\ StartRun(FALSE)

\* lines 126-159
LoadCsv ==
    /\ pc = "load"
    /\ pc' = "alert"
    /\ IF uploaded_file = <<>>
       THEN UNCHANGED <<df, risky_df, risk_score, load_error>>
       ELSE IF uploaded_file[1].header = {}
       THEN /\ load_error' = TRUE
            /\ UNCHANGED <<df, risky_df, risk_score>>
       ELSE LET frame == RenameDaysLeft(normalize_df_columns(read_csv(uploaded_file[1])))
                risky == find_risky_rows(frame)
                after == FrameAfterFind(frame)
            IN /\ df' = <<after>>
               /\ risky_df' = risky
               /\ risk_score' = RiskScore(Len(risky.rows), Len(after.rows))
               /\ UNCHANGED load_error
    /\ UNCHANGED <<N8N_WEBHOOK_URL, uploaded_file, last_auto_alert, resend_pressed,
                   alert_msg, posts, metric, evars>>

\* lines 161-191; the SMTP send of lines 178-188 only renders messages
AutoAlert ==
    /\ pc = "alert"
    /\ pc' = "resend"
    /\ IF HasRisky
       THEN \E outcome \in Outcomes :
              LET r == send_to_n8n(N8N_WEBHOOK_URL, outcome)
              IN /\ last_auto_alert' = <<[n8n_ok |-> r.ok, n8n_resp |-> r.resp]>>
                 /\ alert_msg' = IF r.ok THEN "success" ELSE "error"
                 /\ posts' = posts + r.attempts
       ELSE /\ alert_msg' = "no items"
            /\ UNCHANGED <<last_auto_alert, posts>>
    /\ UNCHANGED <<N8N_WEBHOOK_URL, uploaded_file, resend_pressed, df, risky_df,
                   risk_score, load_error, metric, evars>>

\* lines 193-199
ManualResend ==
    /\ pc = "resend"
    /\ pc' = "snapshot"
    /\ IF HasRisky /\ resend_pressed
       THEN \E outcome \in Outcomes :
              LET r == send_to_n8n(N8N_WEBHOOK_URL, outcome)
              IN /\ last_auto_alert' = <<[n8n_ok |-> r.ok, n8n_resp |-> r.resp]>>
                 /\ posts' = posts + r.attempts
       ELSE UNCHANGED <<last_auto_alert, posts>>
    /\ UNCHANGED <<N8N_WEBHOOK_URL, uploaded_file, resend_pressed, df, risky_df,
                   risk_score, load_error, alert_msg, metric, evars>>

\* lines 273-281: the run ends with the score metric and the last alert
Snapshot ==
    /\ pc = "snapshot"
    /\ pc' = "idle"
    /\ metric' = <<risk_score>>
    /\ UNCHANGED <<N8N_WEBHOOK_URL, uploaded_file, last_auto_alert, resend_pressed,
                   df, risky_df, risk_score, load_error, alert_msg, posts, evars>>

ExpiryAtRest ==
    /\ e_file = <<>>
    /\ e_now = 0
    /\ e_pc = "idle"
    /\ e_run_now = 0
    /\ e_df = <<>>
    /\ e_risky = <<>>
    /\ e_crashed = FALSE

\* lines 23-58: the secrets are read, the session state is created, and the
\* first run of the script starts with no file uploaded
Init ==
    /\ N8N_WEBHOOK_URL \in {<<>>, <<"https://n8n/webhook">>}
    /\ uploaded_file = <<>>
    /\ last_auto_alert = <<>>
    /\ pc = "load"
    /\ resend_pressed = FALSE
    /\ df = <<>>
    /\ risky_df = EmptyFrame
    /\ risk_score = 100
    /\ load_error = FALSE
    /\ alert_msg = "none"
    /\ posts = 0
    /\ metric = <<>>
    /\ ExpiryAtRest

Next ==
    \/ Upload
    \/ RemoveFile
    \/ PressResend
    \/ OtherWidget
    \/ LoadCsv
    \/ AutoAlert
    \/ ManualResend
    \/ Snapshot

Spec == Init /\ [][Next]_vars

----------------------------------------------------------------------------
(* src/main.py: the expiry app.  An expiry_date cell is a calendar date    *)
(* (midnight of day `day`), an empty cell, or text that is no date.        *)

Date(d) == [kind |-> "date", day |-> d]
NoDate == [kind |-> "empty", day |-> 0]
BadDate == [kind |-> "text", day |-> 0]

\* already expired, around the 3-day boundary, and far in the future
DateCells == {Date(0), Date(4), Date(5), Date(20), NoDate, BadDate}

ExpiryHeaders == {{"product", "quantity", "expiry_date"}, {"product", "quantity"}}

ExpiryRowChoices(h, i) ==
    { [c \in h |-> IF c = "product" THEN Products[i]
                   ELSE IF c = "quantity" THEN IntCell(i) ELSE d] : d \in DateCells }

RECURSIVE ExpiryRowSeqs(_, _)
ExpiryRowSeqs(h, n) ==
    IF n = 0 THEN {<<>>}
    ELSE { Append(s, r) : s \in ExpiryRowSeqs(h, n - 1), r \in ExpiryRowChoices(h, n) }

ExpiryFiles ==
    UNION { { [header |-> h, rows |-> s] : s \in ExpiryRowSeqs(h, n) } :
            h \in ExpiryHeaders, n \in 0..MaxExpiryRows }

\* pd.to_datetime with the default errors="raise"
DatetimeRaises(frame) ==
    \E i \in 1..Len(frame.rows) : frame.rows[i].cells["expiry_date"].kind = "text"

\* mutant: the difference is truncated toward zero instead of floored
ExpiryDaysOf_TowardZero(c, now) ==
    IF c.kind = "empty" THEN NaN
    ELSE LET diff == c.day * TicksPerDay - now
         IN IntCell(IF diff >= 0 THEN diff \div TicksPerDay ELSE -((-diff) \div TicksPerDay))

\* line 15 for one cell: (to_datetime(c) - now).dt.days; Timedelta.days is the
\* floor of the difference in days, and NaT gives NaN
ExpiryDaysOf(c, now) ==
    IF c.kind = "empty" THEN NaN
    ELSE IntCell((c.day * TicksPerDay - now) \div TicksPerDay)

\* line 15: df['expiry_days'] = ...
WithExpiryDays(frame, now) ==
    [columns |-> frame.columns \cup {"expiry_days"},
     rows |-> [i \in 1..Len(frame.rows) |->
                 [index |-> frame.rows[i].index,
                  cells |-> [c \in frame.columns \cup {"expiry_days"} |->
                               IF c = "expiry_days"
                               THEN ExpiryDaysOf(frame.rows[i].cells["expiry_date"], now)
                               ELSE frame.rows[i].cells[c]]]]]

\* line 18: a comparison with NaN is False
ExpiresSoon(row) ==
    row.cells["expiry_days"].kind = "num" /\ IntOf(row.cells["expiry_days"]) <= Threshold

ExpiryStartRun ==
    /\ e_pc' = "run"
    /\ e_df' = <<>>
    /\ e_risky' = <<>>
    /\ e_crashed' = FALSE
    /\ UNCHANGED <<e_now, e_run_now, ovars>>

ExpiryUpload ==
    /\ e_pc = "idle"
    /\ e_file = <<>>
    /\ \E f \in ExpiryFiles : e_file' = <<f>>
    /\ ExpiryStartRun

ExpiryRemoveFile ==
    /\ e_pc = "idle"
    /\ e_file # <<>>
    /\ e_file' = <<>>
    /\ ExpiryStartRun

\* the download button reruns the script
ExpiryRerun ==
    /\ e_pc = "idle"
    /\ e_file # <<>>
    /\ UNCHANGED e_file
    /\ ExpiryStartRun

\* lines 11-27; no exception is caught anywhere in the script
ExpiryRun ==
    /\ e_pc = "run"
    /\ e_pc' = "idle"
    /\ e_run_now' = e_now
    /\ IF e_file = <<>>
       THEN UNCHANGED <<e_df, e_risky, e_crashed>>
       ELSE LET frame == read_csv(e_file[1])
            IN IF "expiry_date" \notin frame.columns \/ DatetimeRaises(frame)
               THEN /\ e_crashed' = TRUE
                    /\ e_df' = <<frame>>
                    /\ UNCHANGED e_risky
               ELSE LET after == WithExpiryDays(frame, e_now)
                    IN /\ e_df' = <<after>>
                       /\ e_risky' = <<[columns |-> after.columns,
                                        rows |-> SelectSeq(after.rows, ExpiresSoon)]>>
                       /\ UNCHANGED e_crashed
    /\ UNCHANGED <<e_file, e_now, ovars>>

\* time passes
Tick ==
    /\ e_now < MaxClock
    /\ e_now' = e_now + 1
    /\ UNCHANGED <<e_file, e_pc, e_run_now, e_df, e_risky, e_crashed, ovars>>

OrchestratorAtRest ==
    /\ N8N_WEBHOOK_URL = <<>>
    /\ uploaded_file = <<>>
    /\ last_auto_alert = <<>>
    /\ pc = "idle"
    /\ resend_pressed = FALSE
    /\ df = <<>>
    /\ risky_df = EmptyFrame
    /\ risk_score = 100
    /\ load_error = FALSE
    /\ alert_msg = "none"
    /\ posts = 0
    /\ metric = <<>>

InitExpiry ==
    /\ e_file = <<>>
    /\ e_now = 0
    /\ e_pc = "run"
    /\ e_run_now = 0
    /\ e_df = <<>>
    /\ e_risky = <<>>
    /\ e_crashed = FALSE
    /\ OrchestratorAtRest

NextExpiry ==
    \/ ExpiryUpload
    \/ ExpiryRemoveFile
    \/ ExpiryRerun
    \/ ExpiryRun
    \/ Tick

SpecExpiry == InitExpiry /\ [][NextExpiry]_vars

----------------------------------------------------------------------------
(* Properties of src/src/main.py, checked under Spec *)

RemainingNames == {"days_remaining", " Days_Remaining "}
LeftNames == {"days_left", "DAYS_LEFT "}

File == uploaded_file[1]

\* the CSV block of this run has produced a frame
Loaded == uploaded_file # <<>> /\ pc # "load" /\ df # <<>>

HasRemaining == File.header \cap RemainingNames # {}
HasLeft == File.header \cap LeftNames # {}

\* the column of the uploaded file that carries the days remaining
DaysColumn ==
    IF HasRemaining THEN CHOOSE c \in File.header \cap RemainingNames : TRUE
    ELSE CHOOSE c \in File.header \cap LeftNames : TRUE

\* the days-remaining cell of the i-th uploaded row, as uploaded
RawDays(i) == File.rows[i][DaysColumn]

\* the i-th uploaded row is in the risky set
Flagged(i) == \E j \in 1..Len(risky_df.rows) : risky_df.rows[j].index = i - 1

RiskyIndices == { risky_df.rows[j].index : j \in 1..Len(risky_df.rows) }

\* C1: the risky set is exactly the rows of the batch whose (integer)
\* days_remaining is <= 3, each as it stands in the frame, in upload order.
C1_RiskyIsExactlyThreshold ==
    (Loaded /\ (HasRemaining \/ HasLeft)) =>
        /\ \A j \in 1..Len(risky_df.rows) :
              /\ risky_df.rows[j].index \in 0..(Len(File.rows) - 1)
              /\ risky_df.rows[j] = df[1].rows[risky_df.rows[j].index + 1]
              /\ \A k \in 1..Len(risky_df.rows) :
                    j < k => risky_df.rows[j].index < risky_df.rows[k].index
        /\ \A i \in 1..Len(File.rows) :
              IsInt(RawDays(i)) => (Flagged(i) <=> IntOf(RawDays(i)) <= 3)

\* C1 witness: days 3, 4, -1 uploaded; the first and the third row flagged
C1_Witness ==
    /\ Loaded /\ HasRemaining
    /\ Len(File.rows) = 3
    /\ RawDays(1) = IntCell(3) /\ RawDays(2) = IntCell(4) /\ RawDays(3) = IntCell(-1)
    /\ Len(risky_df.rows) = 2
    /\ risky_df.rows[1].index = 0 /\ risky_df.rows[2].index = 2

\* Python's round() of num/den for num >= 0, den > 0 (ties to even)
PyRound(num, den) ==
    LET q == num \div den
        r == num % den
    IN IF 2 * r < den THEN q
       ELSE IF 2 * r > den THEN q + 1
       ELSE IF q % 2 = 0 THEN q ELSE q + 1

ScoreComputed == uploaded_file # <<>> /\ pc # "load" /\ Len(File.rows) > 0

\* C2 as claimed: the score is the nearest integer to the percentage of
\* non-risky rows.
C2_Original ==
    ScoreComputed =>
        risk_score = PyRound(100 * (Len(File.rows) - Len(risky_df.rows)), Len(File.rows))

\* C2 amended: the score is the percentage of non-risky rows of the raw
\* batch with its fraction cut off (the floor), between 0 and 100.
C2_ScoreIsFloor ==
    ScoreComputed =>
        /\ risk_score \in 0..100
        /\ risk_score * Len(File.rows) <= 100 * (Len(File.rows) - Len(risky_df.rows))
        /\ 100 * (Len(File.rows) - Len(risky_df.rows)) < (risk_score + 1) * Len(File.rows)

\* C2 witness: 1 risky row of 3 gives 66
C2_Witness ==
    /\ ScoreComputed
    /\ Len(File.rows) = 3 /\ Len(risky_df.rows) = 1
    /\ risk_score = 66

AlertSectionDone == pc \in {"resend", "snapshot", "idle"}

\* C3: a batch of zero rows gives score 100 and an empty risky set, a file
\* with a header line raises nothing, and the run sends no alert.
C3_EmptyBatch ==
    (uploaded_file # <<>> /\ pc # "load" /\ Len(File.rows) = 0) =>
        /\ risk_score = 100
        /\ Len(risky_df.rows) = 0
        /\ File.header # {} => (~load_error /\ df # <<>> /\ Len(df[1].rows) = 0)
        /\ posts = 0
        /\ ~resend_pressed
        /\ AlertSectionDone => alert_msg = "no items"
        /\ pc = "idle" => metric = <<100>>

\* C3 witness: a header-only file went through a whole run
C3_Witness ==
    /\ uploaded_file # <<>> /\ pc = "idle"
    /\ File.header = PlainHeader("dr") /\ Len(File.rows) = 0
    /\ metric = <<100>> /\ alert_msg = "no items" /\ ~load_error

\* what pandas makes of a days cell: a number below 4 ends as an integer <= 3
CountsAsRisky(c) == c.kind = "num" /\ c.tenths < 40

\* C4: days_left stands in for days_remaining when that is absent; when both
\* are present days_remaining decides and days_left is carried along
\* untouched; names are matched trimmed and lower-cased.
C4_DaysLeftSynonym ==
    (Loaded /\ (HasRemaining \/ HasLeft)) =>
        /\ "days_remaining" \in df[1].columns
        /\ "days_left" \in df[1].columns <=> (HasRemaining /\ HasLeft)
        /\ \A i \in 1..Len(File.rows) :
              /\ Flagged(i) <=> CountsAsRisky(RawDays(i))
              /\ IsInt(RawDays(i)) => df[1].rows[i].cells["days_remaining"] = RawDays(i)
              /\ (HasRemaining /\ HasLeft) =>
                    df[1].rows[i].cells["days_left"]
                        = File.rows[i][CHOOSE c \in File.header \cap LeftNames : TRUE]
        /\ Len(File.rows) > 0 =>
              risk_score * Len(File.rows)
                  <= 100 * Cardinality({i \in 1..Len(File.rows) : ~CountsAsRisky(RawDays(i))})

\* C4 witness: " Days_Remaining " = 4 beside "DAYS_LEFT " = 1: not flagged
C4_Witness ==
    /\ Loaded
    /\ File.header = FancyHeader("both")
    /\ Len(File.rows) = 1
    /\ File.rows[1][" Days_Remaining "] = IntCell(4)
    /\ File.rows[1]["DAYS_LEFT "] = IntCell(1)
    /\ Len(risky_df.rows) = 0 /\ risk_score = 100

Undetermined(i) ==
    ~(HasRemaining \/ HasLeft) \/ RawDays(i).kind \in {"empty", "text"}

\* C5 as claimed: every row whose days_remaining cannot be determined, the
\* rows of a batch without the column included, gets days_remaining = 9999,
\* stays in the batch and is not flagged, and nothing is raised.
C5_Original ==
    Loaded =>
        /\ ~load_error
        /\ Len(df[1].rows) = Len(File.rows)
        /\ \A i \in 1..Len(File.rows) :
              Undetermined(i) =>
                 /\ "days_remaining" \in df[1].columns
                 /\ df[1].rows[i].cells["days_remaining"] = IntCell(9999)
                 /\ ~Flagged(i)

\* C5 amended: a row whose days_remaining cell is empty or non-numeric gets
\* 9999; in a batch with no days_remaining / days_left column no row gets a
\* days_remaining at all; either way the row stays, is not flagged and
\* nothing is raised.
C5_SentinelWhereColumnExists ==
    Loaded =>
        /\ ~load_error
        /\ Len(df[1].rows) = Len(File.rows)
        /\ \A i \in 1..Len(File.rows) :
              Undetermined(i) =>
                 /\ ~Flagged(i)
                 /\ IF HasRemaining \/ HasLeft
                    THEN df[1].rows[i].cells["days_remaining"] = IntCell(9999)
                    ELSE "days_remaining" \notin df[1].columns
        /\ ~(HasRemaining \/ HasLeft) => risk_score = 100

\* C5 witness: an empty and a non-numeric cell beside an expired row
C5_Witness ==
    /\ Loaded /\ HasRemaining
    /\ Len(File.rows) = 3
    /\ RawDays(1) = NaN /\ RawDays(2) = Text /\ RawDays(3) = IntCell(-1)
    /\ df[1].rows[1].cells["days_remaining"] = IntCell(9999)
    /\ df[1].rows[2].cells["days_remaining"] = IntCell(9999)
    /\ RiskyIndices = {2}
    /\ risk_score = 66

\* the frame the CSV block handed to find_risky_rows
PassedIn == RenameDaysLeft(normalize_df_columns(read_csv(File)))

\* find_risky_rows has just returned
Assessed == Loaded /\ pc = "alert"

\* C8 as claimed: the batch is the same before and after the assessment.
C8_Original == Assessed => df[1] = PassedIn

\* C8 amended: the assessment leaves the rows, their order and every column
\* but days_remaining as they were; days_remaining is overwritten with its
\* integer coercion (an integer stays, a fraction loses its fractional part,
\* an empty or non-numeric cell becomes 9999).
C8_OnlyDaysRemainingRewritten ==
    Assessed =>
        /\ df[1].columns = PassedIn.columns
        /\ Len(df[1].rows) = Len(PassedIn.rows)
        /\ \A i \in 1..Len(PassedIn.rows) :
              /\ df[1].rows[i].index = PassedIn.rows[i].index
              /\ \A c \in PassedIn.columns \ {"days_remaining"} :
                    df[1].rows[i].cells[c] = PassedIn.rows[i].cells[c]
              /\ "days_remaining" \in PassedIn.columns =>
                    LET old == PassedIn.rows[i].cells["days_remaining"]
                        new == df[1].rows[i].cells["days_remaining"]
                    IN /\ IsInt(new)
                       /\ IsInt(old) => new = old
                       /\ old.kind # "num" => new = IntCell(9999)
                       /\ (old.kind = "num" /\ old.tenths >= 0) =>
                             (new.tenths <= old.tenths /\ old.tenths < new.tenths + 10)

\* C8 witness: 3.7 was uploaded and the frame now holds 3
C8_Witness ==
    /\ Assessed /\ HasRemaining
    /\ Len(File.rows) >= 1
    /\ PassedIn.rows[1].cells["days_remaining"] = Num(37)
    /\ df[1].rows[1].cells["days_remaining"] = IntCell(3)
    /\ df[1] # PassedIn

\* C9 as claimed: a run makes at most one POST, and none when the URL is
\* not configured or nothing is risky.
C9_Original ==
    /\ posts <= 1
    /\ (N8N_WEBHOOK_URL = <<>> \/ (pc # "load" /\ Len(risky_df.rows) = 0)) => posts = 0

IsFailure(alert) ==
    \/ alert.n8n_resp.kind \in {"not configured", "Request error"}
    \/ alert.n8n_resp.status < 200
    \/ alert.n8n_resp.status >= 300

\* a step taken after the CSV block moves the run on and leaves its results alone
RunGoesOn ==
    (pc \in {"alert", "resend", "snapshot"}) =>
        (pc' # pc /\ risky_df' = risky_df /\ risk_score' = risk_score /\ df' = df)

\* C10: a webhook failure comes back as (False, message); the run shows the
\* error, records it in last_auto_alert and goes on to its end with the
\* risky set and the score as they were.
C10_WebhookFailureIsAValue ==
    /\ [](last_auto_alert # <<>> =>
            /\ last_auto_alert[1].n8n_ok <=> ~IsFailure(last_auto_alert[1])
            /\ N8N_WEBHOOK_URL = <<>> => last_auto_alert[1].n8n_resp.kind = "not configured")
    /\ []((pc = "resend" /\ HasRisky) =>
            /\ last_auto_alert # <<>>
            /\ alert_msg = (IF IsFailure(last_auto_alert[1]) THEN "error" ELSE "success"))
    /\ []((pc = "idle" /\ alert_msg = "error") => metric = <<risk_score>>)
    /\ [][RunGoesOn]_vars

\* C10 witness: the POST raised, the error was shown and recorded, and the
\* run ended with the score on display
C10_Witness ==
    /\ pc = "idle" /\ HasRisky /\ ~resend_pressed
    /\ alert_msg = "error"
    /\ last_auto_alert = <<[n8n_ok |-> FALSE,
                            n8n_resp |-> [kind |-> "Request error", status |-> 0]]>>
    /\ metric = <<risk_score>>

----------------------------------------------------------------------------
(* Properties of src/main.py, checked under SpecExpiry *)

EFile == e_file[1]

\* the run on the uploaded file is over
ExpiryRan == e_file # <<>> /\ e_pc = "idle"

\* a row of the report comes from the i-th uploaded row
Reported(i) ==
    /\ e_risky # <<>>
    /\ \E j \in 1..Len(e_risky[1].rows) : e_risky[1].rows[j].index = i - 1

\* C6 as claimed: a row with an unparseable expiry_date never makes the run
\* fail; the other rows of the batch are still classified and reported.
C6_Original ==
    (ExpiryRan /\ "expiry_date" \in EFile.header) =>
        /\ ~e_crashed
        /\ e_risky # <<>>
        /\ \A i \in 1..Len(EFile.rows) :
              (EFile.rows[i]["expiry_date"].kind = "date"
                 /\ EFile.rows[i]["expiry_date"].day * TicksPerDay - e_run_now
                        < 4 * TicksPerDay)
              => Reported(i)

\* every expiry_date cell of the uploaded file is a date or empty
AllDatesReadable ==
    /\ "expiry_date" \in EFile.header
    /\ \A i \in 1..Len(EFile.rows) : EFile.rows[i]["expiry_date"].kind # "text"

\* C7: in a batch whose dates are all readable, a row's day count is the
\* floor of expiry_date - now in days, and the row is reported iff that is
\* <= 3: an expired row is, a row far in the future is not.
C7_DerivedDaysAreFloored ==
    (ExpiryRan /\ AllDatesReadable) =>
        /\ ~e_crashed
        /\ e_df # <<>> /\ e_risky # <<>>
        /\ Len(e_df[1].rows) = Len(EFile.rows)
        /\ \A i \in 1..Len(EFile.rows) :
              LET date == EFile.rows[i]["expiry_date"]
                  days == e_df[1].rows[i].cells["expiry_days"]
                  diff == date.day * TicksPerDay - e_run_now
              IN date.kind = "date" =>
                   /\ IsInt(days)
                   /\ IntOf(days) * TicksPerDay <= diff
                   /\ diff < (IntOf(days) + 1) * TicksPerDay
                   /\ Reported(i) <=> IntOf(days) <= 3
                   /\ diff < 0 => Reported(i)
                   /\ date.day = 20 => ~Reported(i)

\* C7 witness: a date half a day in the past counts -1 day and is reported
\* beside a far-away date that is not
C7_Witness ==
    /\ ExpiryRan /\ ~e_crashed /\ e_risky # <<>>
    /\ Len(EFile.rows) = 2
    /\ EFile.rows[1]["expiry_date"] = Date(0)
    /\ EFile.rows[2]["expiry_date"] = Date(20)
    /\ e_run_now = 1
    /\ e_df[1].rows[1].cells["expiry_days"] = IntCell(-1)
    /\ Len(e_risky[1].rows) = 1
    /\ e_risky[1].rows[1].index = 0
====
